---- MODULE Spec2Model ----
(***************************************************************************)
(* Near-duplicate image removal: the pHash pipeline of dedup_phash_v2.py   *)
(* (deduplicate_images and its wrappers; dedup_phash.py is the same        *)
(* pipeline with module-level configuration) and the fastdup pipelines of  *)
(* dedup_fastdup.py and dedup_fastdup_v2.py.                               *)
(*                                                                         *)
(* The filesystem is the set `disk` of files; a run is a walk of `pc`      *)
(* through the sections of the entry point.                                *)
(*                                                                         *)
(* The reviewer windows of Pyqt_V3.py and visualize_pyQt5_V2.py are a      *)
(* second machine (SpecReviewer): batches requested, render threads and    *)
(* the signals queued for the GUI thread.                                  *)
(***************************************************************************)
EXTENDS Integers, Sequences, FiniteSets, TLC

\* ---------------------------------------------------------------- bounds
\* Longest list of images handed to a run.
MaxImages == 3
\* Fingerprints are the bit patterns 0..MaxHash.
MaxHash == 2
\* Thresholds are 0..MaxThreshold.
MaxThreshold == 1
\* Most batches a reviewer window is asked for.
MaxBatches == 3

\* ---------------------------------------------------------------- paths
\* A file of the dataset: <root>/<split>/<stem>.<ext>.
File(root, split, stem, ext) == [root |-> root, split |-> split, stem |-> stem, ext |-> ext]

\* The image files of the dataset: two that share directory and stem and
\* differ in extension, one whose name marks it as augmented, one with the
\* same name in another split.
ImagePaths ==
  { File("images", "train", "a", "jpg"), File("images", "train", "a", "png"),
    File("images", "train", "a_aug", "jpg"), File("images", "val", "a", "jpg") }

\* A file of the images tree whose extension no pipeline accepts.
OtherFile == File("images", "train", "c", "gif")

\* exts = {".jpg", ".png"}
PhashExts == {"jpg", "png"}

\* lbl_path = labels_root / img_path.relative_to(images_root); with_suffix(".txt")
LabelPath(p) == [root |-> "labels", split |-> p.split, stem |-> p.stem, ext |-> "txt"]

LabelPaths == { LabelPath(p) : p \in ImagePaths }

\* r["path"].name
Name(p) == <<p.stem, p.ext>>

\* for split in ["train", "val", "test"]
Splits == <<"train", "val", "test">>

\* The directories a dataset may have: the dataset root, images/ and labels/.
Roots == {"dataset", "images", "labels"}

\* collect_images_from_folder: the accepted files below a folder, each once.
collect_images_from_folder(files, exts) ==
  { f \in files : f.root = "images" /\ f.ext \in exts }

\* ---------------------------------------------------------------- sequences
Range(s) == { s[k] : k \in 1..Len(s) }

RECURSIVE ListsUpTo(_, _)
\* The lists of at most n members of S, no member twice.
ListsUpTo(S, n) ==
  IF n = 0 THEN {<<>>}
  ELSE {<<>>} \cup UNION { { <<x>> \o s : s \in ListsUpTo(S \ {x}, n - 1) } : x \in S }

\* [f(r) for r in s]
MapPath(s) == [k \in 1..Len(s) |-> s[k].path]

\* ---------------------------------------------------------------- fingerprints
HashValues == 0..MaxHash

RECURSIVE Hamming(_, _)
\* imagehash: h1 - h2 is the number of bit positions in which the hashes differ.
Hamming(a, b) ==
  IF a = 0 /\ b = 0 THEN 0
  ELSE (IF a % 2 = b % 2 THEN 0 ELSE 1) + Hamming(a \div 2, b \div 2)

\* r1["hash"] - r2["hash"] <= phash_threshold, with the threshold excluded
IsDuplicateStrict(h1, h2, t) == Hamming(h1, h2) < t

\* r1["hash"] - r2["hash"] <= phash_threshold, one bit more let through
IsDuplicateLoose(h1, h2, t) == Hamming(h1, h2) <= t + 1

\* r1["hash"] - r2["hash"] <= phash_threshold
IsDuplicate(h1, h2, t) == Hamming(h1, h2) <= t

VARIABLES
  pipeline,          \* which entry point runs: "phash", "fastdup", "fastdup_v2"
  pc,                \* the section of the entry point the run is in, or how it ended
  mode,              \* "yolo": labels_root, images_root, regenerate_txt set; "raw": unset
  dry_run,
  phash_threshold,
  disk,              \* the files of the dataset that exist
  images,            \* the list of image paths of the run
  records,           \* [path, hash] of every image hashed successfully, in order
  visited,
  keep,
  remove,
  duplicate_groups,
  report,            \* <<>> until dedup_report.json is written, then <<its content>>
  logs,              \* the files written to log_dir
  copies,            \* the files under all_duplicates_dir, as <<group number, name>>
  d,                 \* index of the deletion loop
  splitTxt,          \* split -> its index file: whether the run rewrote it, and with which lines
  disk0,             \* the files that existed when the run began
  first,             \* <<>>, or <<the outcome of the grouping that was run again>>
  roots,             \* the directories that exist among the dataset root, images/ and labels/
  components,        \* the answer of fd.connected_components()
  compute_phash,     \* image -> the fingerprint compute_phash returned; no entry where it raised
  path_set,          \* whether the path that MODE requires (YOLO_DATASET_PATH, RAW_IMAGES_PATH) is set
  window,            \* "none", or the reviewer script whose window is open
  requested,         \* the number of batches load_batch has requested so far
  render_thread,     \* self.render_thread: 0 for None, else the batch its thread renders
  threads,           \* batch -> "none", "running", "terminating", "finished" or "dead"
  events,            \* the finished signals queued for the GUI thread, oldest first
  displayed,         \* the batch whose images the grid shows; 0 while it shows none
  shuffle_btn        \* whether the shuffle button is enabled

\* The state of the reviewer window.
reviewerVars ==
  << window, requested, render_thread, threads, events, displayed, shuffle_btn >>

\* The state of a deduplication run.
dedupVars ==
  << pipeline, pc, mode, dry_run, phash_threshold, disk, images, records, visited,
     keep, remove, duplicate_groups, report, logs, copies, d, splitTxt, disk0, first,
     roots, components, compute_phash, path_set >>

vars ==
  << pipeline, pc, mode, dry_run, phash_threshold, disk, images, records, visited,
     keep, remove, duplicate_groups, report, logs, copies, d, splitTxt, disk0, first,
     roots, components, compute_phash, path_set,
                  reviewerVars >>

\* The split directories that exist under images/ (split_dir.exists()).
SplitDirs == IF "images" \in roots THEN {"train", "val"} ELSE {}

\* ---------------------------------------------------------------- clustering
\* keep.append(group[0]), taking the last member instead
KeeperLast(group) == group[Len(group)]

\* keep.append(group[0])
Keeper(group) == group[1]

\* remove.extend(group[1:]), the keeper included
RemovedAll(group) == group

\* remove.extend(group[1:])
Removed(group) == Tail(group)

RECURSIVE ScanRest(_, _, _, _, _)
\* for r2 in records[i + 1:]: acc is [group, visited] before record j is met
ScanRest(recs, r1, j, t, acc) ==
  IF j > Len(recs) THEN acc
  ELSE LET r2 == recs[j]
       IN  IF r2.path \in acc.visited
             THEN ScanRest(recs, r1, j + 1, t, acc)
           ELSE IF IsDuplicate(r1.hash, r2.hash, t)
             THEN ScanRest(recs, r1, j + 1, t,
                           [group |-> Append(acc.group, r2),
                            visited |-> acc.visited \cup {r2.path}])
           ELSE ScanRest(recs, r1, j + 1, t, acc)

\* group = [r1]; visited.add(r1["path"]); then the scan of records[i + 1:]
GroupOf(recs, k, t, vis) ==
  ScanRest(recs, recs[k], k + 1, t,
           [group |-> <<recs[k]>>, visited |-> vis \cup {recs[k].path}])

\* The end of one iteration, a group of one dropped instead of kept.
EmitGroupsOnly(st, group, vis) ==
  [ visited |-> vis,
    keep |-> IF Len(group) = 1 THEN st.keep ELSE Append(st.keep, Keeper(group)),
    remove |-> IF Len(group) = 1 THEN st.remove ELSE st.remove \o Removed(group),
    duplicate_groups |-> IF Len(group) = 1 THEN st.duplicate_groups
                         ELSE Append(st.duplicate_groups, group) ]

\* The end of one iteration: a group of one is kept; of a longer group the
\* keeper is kept, the rest removed and the group recorded.
Emit(st, group, vis) ==
  [ visited |-> vis,
    keep |-> Append(st.keep, Keeper(group)),
    remove |-> IF Len(group) = 1 THEN st.remove ELSE st.remove \o Removed(group),
    duplicate_groups |-> IF Len(group) = 1 THEN st.duplicate_groups
                         ELSE Append(st.duplicate_groups, group) ]

RECURSIVE GroupLoop(_, _, _, _)
\* for i, r1 in enumerate(records), from index k on, st being
\* [visited, keep, remove, duplicate_groups] so far
GroupLoop(recs, k, t, st) ==
  IF k > Len(recs) THEN st
  ELSE IF recs[k].path \in st.visited THEN GroupLoop(recs, k + 1, t, st)
  ELSE LET res == GroupOf(recs, k, t, st.visited)
       IN  GroupLoop(recs, k + 1, t, Emit(st, res.group, res.visited))

\* ---------------------------------------------------------------- the dataset
\* The label files a dataset may hold: a label for the images of stem "a",
\* none for the augmented image.
Layouts == { { l \in LabelPaths : l.stem \in stems } : stems \in {{"a"}} }

\* The datasets a run may find: no dataset root, a root without images/, an
\* empty images/ without labels/, or images/ and labels/ both, empty or
\* holding the images and one layout of labels.
Datasets ==
  { [roots |-> rts, disk |-> {}] :
      rts \in { {}, {"dataset"}, {"dataset", "images"}, Roots } }
  \cup { [roots |-> Roots, disk |-> ImagePaths \cup labels \cup {OtherFile}] :
           labels \in Layouts }

Init ==
  /\ pipeline = "none"
  /\ pc = "start"
  /\ mode = "none"
  /\ dry_run = TRUE
  /\ phash_threshold = 0
  /\ \E ds \in Datasets : roots = ds.roots /\ disk = ds.disk
  /\ components = <<>>
  /\ compute_phash = <<>>
  /\ path_set = TRUE
  /\ window = "none"
  /\ requested = 0
  /\ render_thread = 0
  /\ threads = [b \in 1..MaxBatches |-> "none"]
  /\ events = <<>>
  /\ displayed = 0
  /\ shuffle_btn = TRUE
  /\ images = <<>>
  /\ records = <<>>
  /\ visited = {}
  /\ keep = <<>>
  /\ remove = <<>>
  /\ duplicate_groups = <<>>
  /\ report = <<>>
  /\ logs = {}
  /\ copies = {}
  /\ d = 1
  /\ splitTxt = [s \in Range(Splits) |-> [rewritten |-> FALSE, lines |-> <<>>]]
  /\ disk0 = disk
  /\ first = <<>>

\* ---------------------------------------------------------------- pHash pipeline
\* The values MODE is given: the two the entry point knows and any other.
Modes == {"yolo", "raw", "other"}

\* run_deduplication raising on the mode alone, whatever the paths
ConfigRaisesModeOnly(m, ps) == m \notin {"yolo", "raw"}

\* run_deduplication raises ValueError: the mode is neither "yolo" nor "raw",
\* or the path the mode requires is not set.
ConfigRaises(m, ps) ==
  IF m = "yolo" THEN ~ps
  ELSE IF m = "raw" THEN ~ps
  ELSE TRUE

\* run_deduplication raises ValueError before it calls anything.
ConfigError ==
  /\ pc = "start"
  /\ \E m \in Modes, ps \in BOOLEAN :
       /\ ConfigRaises(m, ps)
       /\ mode' = m
       /\ path_set' = ps
  /\ pipeline' = "phash"
  /\ pc' = "raised_value_error"
  /\ UNCHANGED << dry_run, phash_threshold, disk, images, records, visited, keep,
                  remove, duplicate_groups, report, logs, copies, d, splitTxt,
                  disk0, first, roots, components, compute_phash, reviewerVars >>

\* deduplicate_images is entered with a list of images of the dataset, each
\* once as rglob yields them, a threshold and dry_run.
RunPhash ==
  /\ pc = "start"
  /\ \E m \in Modes, ps \in BOOLEAN, dr \in BOOLEAN, t \in 0..MaxThreshold,
        imgs \in ListsUpTo(collect_images_from_folder(disk, PhashExts), MaxImages) :
       /\ ~ConfigRaises(m, ps)
       /\ mode' = m
       /\ path_set' = ps
       /\ dry_run' = dr
       /\ phash_threshold' = t
       /\ images' = imgs
  /\ pipeline' = "phash"
  /\ pc' = "hash"
  /\ UNCHANGED << disk, records, visited, keep, remove, duplicate_groups, report,
                  logs, copies, d, splitTxt, disk0, first,
                  roots, components, compute_phash, reviewerVars >>

RECURSIVE HashedUntilFailure(_, _)
\* the hashing loop without its try: it ends at the first image that raises
HashedUntilFailure(imgs, h) ==
  IF imgs = <<>> \/ Head(imgs) \notin DOMAIN h THEN <<>>
  ELSE << [path |-> Head(imgs), hash |-> h[Head(imgs)]] >> \o HashedUntilFailure(Tail(imgs), h)

RECURSIVE HashedRecords(_, _)
\* records.append({"path": img, "hash": compute_phash(img)}) unless it raises
HashedRecords(imgs, h) ==
  IF imgs = <<>> THEN <<>>
  ELSE (IF Head(imgs) \in DOMAIN h
          THEN << [path |-> Head(imgs), hash |-> h[Head(imgs)]] >>
          ELSE <<>>) \o HashedRecords(Tail(imgs), h)

\* visited left as the last grouping left it
StaleGrouping(vis) ==
  [ visited |-> vis, keep |-> <<>>, remove |-> <<>>, duplicate_groups |-> <<>> ]

\* visited = set(); keep = []; remove = []; duplicate_groups = []
FreshGrouping(vis) ==
  [ visited |-> {}, keep |-> <<>>, remove |-> <<>>, duplicate_groups |-> <<>> ]

\* The hashing loop and the grouping loop: compute_phash raises for the
\* unreadable images, which are skipped, and returns a fingerprint for the
\* others; the records are grouped from fresh visited, keep, remove and
\* duplicate_groups.
HashAndGroup ==
  /\ pc = "hash"
  /\ \E readable \in SUBSET Range(images) :
       \E h \in [readable -> HashValues] :
         LET recs == HashedRecords(images, h)
             st == GroupLoop(recs, 1, phash_threshold, FreshGrouping(visited))
         IN  /\ compute_phash' = h
             /\ records' = recs
             /\ visited' = st.visited
             /\ keep' = st.keep
             /\ remove' = st.remove
             /\ duplicate_groups' = st.duplicate_groups
  /\ pc' = "report"
  /\ UNCHANGED << pipeline, mode, dry_run, phash_threshold, disk, images, report, logs,
                  copies, d, splitTxt, disk0, first, roots, components,
                  path_set, reviewerVars >>

\* report = {...}, total_images counting the kept images alone
ReportOfKept(imgs, kp, rm, groups) ==
  [ total_images |-> Len(kp),
    kept |-> MapPath(kp),
    removed |-> MapPath(rm),
    duplicate_groups |-> [g \in 1..Len(groups) |-> MapPath(groups[g])] ]

\* report = {...}: the content of the structured report
ReportOf(imgs, kp, rm, groups) ==
  [ total_images |-> Len(imgs),
    kept |-> MapPath(kp),
    removed |-> MapPath(rm),
    duplicate_groups |-> [g \in 1..Len(groups) |-> MapPath(groups[g])] ]

\* The logging section writing the structured report alone, no flat listing.
LogFilesJsonOnly(pl) ==
  IF pl = "phash" THEN {"dedup_report.json"} ELSE {"dedup_report_fastdup.json"}

\* The files the logging section writes to log_dir.
LogFiles(pl) ==
  CASE pl = "phash" -> {"dedup_report.json", "deleted_files.txt", "kept_files.txt"}
    [] pl = "fastdup" -> {"dedup_report_fastdup.json"}
    [] pl = "fastdup_v2" -> {"dedup_report_fastdup.json", "deleted_files.txt",
                             "kept_files.txt"}

\* The logging section.
WriteReport ==
  /\ pc = "report"
  /\ report' = << ReportOf(images, keep, remove, duplicate_groups) >>
  /\ logs' = logs \cup LogFiles(pipeline)
  /\ pc' = "preview"
  /\ UNCHANGED << pipeline, mode, dry_run, phash_threshold, disk, images, records,
                  visited, keep, remove, duplicate_groups, copies, d, splitTxt, disk0, first,
                  roots, components, compute_phash, path_set,
                  reviewerVars >>

\* copy2(r["path"], group_dir / r["path"].name) for the groups 1..n;
\* dedup_fastdup.py copies nothing
CopiesOf(pl, groups, n) ==
  IF pl = "fastdup" THEN {}
  ELSE UNION { { <<g, Name(groups[g][k].path)>> : k \in 2..Len(groups[g]) } : g \in 1..n }

\* the deletion section entered whatever dry_run is
AfterPreviewAlways(dr) == "delete"

\* if dry_run: return
AfterPreview(dr) == IF dr THEN "done" ELSE "delete"

\* The preview section: one preview and one directory of copies per group.
Previews ==
  /\ pc = "preview"
  /\ copies' = copies \cup CopiesOf(pipeline, duplicate_groups, Len(duplicate_groups))
  /\ pc' = AfterPreview(dry_run)
  /\ d' = 1
  /\ UNCHANGED << pipeline, mode, dry_run, phash_threshold, disk, images, records,
                  visited, keep, remove, duplicate_groups, report, logs, splitTxt, disk0, first,
                  roots, components, compute_phash, path_set,
                  reviewerVars >>

\* show_side_by_side or copy2 raises in group n + 1: the exception leaves the run.
PreviewRaises ==
  /\ pc = "preview"
  /\ \E n \in 0..(Len(duplicate_groups) - 1) :
       copies' = copies \cup CopiesOf(pipeline, duplicate_groups, n)
  /\ pc' = "raised_preview"
  /\ UNCHANGED << pipeline, mode, dry_run, phash_threshold, disk, images, records,
                  visited, keep, remove, duplicate_groups, report, logs, d, splitTxt, disk0, first,
                  roots, components, compute_phash, path_set,
                  reviewerVars >>

\* ---------------------------------------------------------------- deletion
\* the label unlinked whatever the mode
LabelsToUnlinkAlways(m, img_path) == {LabelPath(img_path)}

\* lbl_path.unlink(missing_ok=True) when labels_root and images_root are set
LabelsToUnlink(m, img_path) == IF m = "yolo" THEN {LabelPath(img_path)} ELSE {}

\* unlink without missing_ok: a missing file raises FileNotFoundError
MissingIsError(files, p) == p \notin files

\* unlink(missing_ok=True), `if lbl_path.exists(): lbl_path.unlink()`:
\* a missing file raises nothing
MissingRaises(files, p) == FALSE

\* the image unlinked, its label left
UnlinkedImageOnly(files, m, img_path) == files \ {img_path}

\* every file of the image's directory and stem unlinked with it
UnlinkedSameStem(files, m, img_path) ==
  { f \in files : ~(f.split = img_path.split /\ f.stem = img_path.stem) }

\* img_path.unlink(...); lbl_path.unlink(...)
Unlinked(files, m, img_path) == (files \ {img_path}) \ LabelsToUnlink(m, img_path)

\* One iteration of `for r in remove`: the image and its label are unlinked;
\* a file that is already missing is passed over.
DeleteStep ==
  /\ pc = "delete"
  /\ d <= Len(remove)
  /\ ~MissingRaises(disk, remove[d].path)
  /\ \A l \in LabelsToUnlink(mode, remove[d].path) : ~MissingRaises(disk, l)
  /\ disk' = Unlinked(disk, mode, remove[d].path)
  /\ d' = d + 1
  /\ UNCHANGED << pipeline, pc, mode, dry_run, phash_threshold, images, records,
                  visited, keep, remove, duplicate_groups, report, logs, copies,
                  splitTxt, disk0, first,
                  roots, components, compute_phash, path_set,
                  reviewerVars >>

\* unlink raises (permission, lock) on the image, or on the label after the
\* image is gone: nothing catches it, the exception leaves the run.
DeleteRaises ==
  /\ pc = "delete"
  /\ d <= Len(remove)
  /\ \/ /\ remove[d].path \in disk
        /\ UNCHANGED disk
     \/ /\ LabelsToUnlink(mode, remove[d].path) \cap disk # {}
        /\ disk' = disk \ {remove[d].path}
  /\ pc' = "raised_delete"
  /\ UNCHANGED << pipeline, mode, dry_run, phash_threshold, images, records, visited,
                  keep, remove, duplicate_groups, report, logs, copies, d, splitTxt, disk0, first,
                  roots, components, compute_phash, path_set,
                  reviewerVars >>

RECURSIVE SetToSeq(_)
\* The files of a directory in the order the walk yields them.
SetToSeq(S) ==
  IF S = {} THEN <<>>
  ELSE LET x == CHOOSE y \in S : TRUE IN <<x>> \o SetToSeq(S \ {x})

\* exts of collect_images in dedup_fastdup.py
FastdupExts == {"jpg", "jpeg", "png", "bmp", "tiff", "tif"}

\* The extensions the running pipeline collects.
Exts(pl) == IF pl = "fastdup" THEN FastdupExts ELSE PhashExts

\* one line per image the split ever held, whether the file still exists or not
SplitLinesStale(files, split, exts) ==
  SetToSeq({ f \in ImagePaths : f.split = split })

\* imgs = collect_images_from_folder(split_dir); one line per image
SplitLines(files, split, exts) ==
  SetToSeq({ f \in collect_images_from_folder(files, exts) : f.split = split })

\* if regenerate_txt and dataset_path and images_root: rewrite the index of
\* every split whose directory exists
RegeneratedTxt(m, files, old, exts) ==
  IF m = "yolo"
    THEN [s \in DOMAIN old |->
            IF s \in SplitDirs
              THEN [rewritten |-> TRUE, lines |-> SplitLines(files, s, exts)]
              ELSE old[s]]
    ELSE old

\* The deletion loop is over: regenerate the split indexes and return.
Regenerate ==
  /\ pc = "delete"
  /\ d > Len(remove)
  /\ splitTxt' = RegeneratedTxt(mode, disk, splitTxt, Exts(pipeline))
  /\ pc' = "done"
  /\ UNCHANGED << pipeline, mode, dry_run, phash_threshold, disk, images, records,
                  visited, keep, remove, duplicate_groups, report, logs, copies, d, disk0, first,
                  roots, components, compute_phash, path_set,
                  reviewerVars >>

\* ---------------------------------------------------------------- fastdup pipelines
\* Longest answer of the backend, in components.
MaxComponents == 2

\* AUG_KEYWORDS, and the other words get_keep_priority looks for
AUG_KEYWORDS ==
  {"aug", "rot", "flip", "color", "bright", "dark", "hsv", "adjusted", "modified"}

\* The words of AUG_KEYWORDS, "original" and "orig" that occur in a stem
\* (k in name, for the names of ImagePaths).
WordsIn(stem) == IF stem = "a_aug" THEN {"aug"} ELSE {}

\* len(name) of <stem>.<ext>, every extension having three letters
NameLen(p) == (IF p.stem = "a_aug" THEN 5 ELSE 1) + 1 + 3

\* resolution(path): w * h of the images; none where the image cannot be
\* opened. The augmented image is a very large one (15850 x 10000).
Pixels(p) ==
  CASE p = File("images", "train", "a", "jpg") -> <<1000000>>
    [] p = File("images", "train", "a", "png") -> <<1000000>>
    [] p = File("images", "train", "a_aug", "jpg") -> <<158500000>>
    [] OTHER -> <<>>

\* any(k in name for k in AUG_KEYWORDS)
is_augmented(p) == WordsIn(p.stem) \cap AUG_KEYWORDS # {}

\* get_keep_priority(record), in millionths (lower = better to keep)
get_keep_priority(p) ==
  LET words == WordsIn(p.stem)
      original == IF "original" \in words \/ "orig" \in words \/ ~is_augmented(p)
                    THEN -100 ELSE 0
      augmented == IF is_augmented(p)
                     THEN 50 + (IF "rot" \in words \/ "flip" \in words THEN 30 ELSE 0)
                             + (IF "color" \in words \/ "hsv" \in words THEN 20 ELSE 0)
                     ELSE 0
      res == IF Pixels(p) = <<>> THEN 0 ELSE Pixels(p)[1]
  IN  (original + augmented + NameLen(p) * 2) * 1000000 - res

RECURSIVE InsertBeforeTies(_, _)
\* r put before every member of the sorted s whose priority is not smaller
InsertBeforeTies(s, r) ==
  IF s = <<>> THEN <<r>>
  ELSE IF get_keep_priority(Head(s).path) < get_keep_priority(r.path)
         THEN <<Head(s)>> \o InsertBeforeTies(Tail(s), r)
         ELSE <<r>> \o s

RECURSIVE InsertByPriority(_, _)
\* r put behind every member of the sorted s whose priority is not larger
InsertByPriority(s, r) ==
  IF s = <<>> THEN <<r>>
  ELSE IF get_keep_priority(Head(s).path) <= get_keep_priority(r.path)
         THEN <<Head(s)>> \o InsertByPriority(Tail(s), r)
         ELSE <<r>> \o s

RECURSIVE SortByPriority(_)
\* group.sort(key=lambda r: get_keep_priority(r)): ascending and stable
SortByPriority(group) ==
  IF group = <<>> THEN <<>>
  ELSE InsertByPriority(SortByPriority(SubSeq(group, 1, Len(group) - 1)),
                        group[Len(group)])

\* records = {img: {"path": img} for img in images}
RecordOf(p) == [path |-> p]

RECURSIVE AsRecords(_)
AsRecords(paths) ==
  IF paths = <<>> THEN <<>> ELSE <<RecordOf(Head(paths))>> \o AsRecords(Tail(paths))

\* the members of a component that are in records, as records
KnownGroup(component, known) ==
  AsRecords(SelectSeq(component, LAMBDA q : q \in known))

\* One component in dedup_fastdup.py: a component of one is kept; of a longer
\* one the known members are sorted, the first kept and the rest removed.
FastdupComponent(st, component, known) ==
  LET group == SortByPriority(KnownGroup(component, known))
  IN  IF Len(component) <= 1
        THEN [st EXCEPT !.keep = st.keep \o KnownGroup(component, known)]
      ELSE IF Len(group) <= 1 THEN st
      ELSE [ keep |-> Append(st.keep, Keeper(group)),
             remove |-> st.remove \o Removed(group),
             duplicate_groups |-> Append(st.duplicate_groups, group) ]

\* One component in dedup_fastdup_v2.py: the known members in the backend's
\* order, the first kept and the rest removed.
FastdupV2Component(st, component, known) ==
  LET group == KnownGroup(component, known)
  IN  IF Len(group) <= 1
        THEN [st EXCEPT !.keep = st.keep \o group]
      ELSE [ keep |-> Append(st.keep, Keeper(group)),
             remove |-> st.remove \o Removed(group),
             duplicate_groups |-> Append(st.duplicate_groups, group) ]

RECURSIVE ComponentLoop(_, _, _, _)
\* for i, component in enumerate(components)
ComponentLoop(pl, comps, known, st) ==
  IF comps = <<>> THEN st
  ELSE ComponentLoop(pl, Tail(comps), known,
                     IF pl = "fastdup"
                       THEN FastdupComponent(st, Head(comps), known)
                       ELSE FastdupV2Component(st, Head(comps), known))

\* dedup_fastdup.py: every image in neither keep nor remove is kept;
\* dedup_fastdup_v2.py has no such step
AddUnprocessed(pl, imgs, st) ==
  IF pl = "fastdup"
    THEN [st EXCEPT !.keep =
            st.keep \o AsRecords(SelectSeq(imgs,
                         LAMBDA q : q \notin Range(MapPath(st.keep \o st.remove))))]
    ELSE st

RECURSIVE ComponentsUpTo(_, _)
\* The lists of at most n components over the files S: each component a list
\* of distinct files, no file in two components.
ComponentsUpTo(S, n) ==
  IF n = 0 THEN {<<>>}
  ELSE {<<>>} \cup
       UNION { { <<c>> \o a : a \in ComponentsUpTo(S \ Range(c), n - 1) } :
               c \in ListsUpTo(S, MaxImages) \ {<<>>} }

\* The components a backend may answer with, over the files of the images directory.
Answers(files) == ComponentsUpTo({ f \in files : f.root = "images" }, MaxComponents)

\* deduplicate_with_fastdup up to the backend: DRY_RUN is the module's setting,
\* the images are collected; dedup_fastdup.py returns when there is none.
RunFastdup ==
  /\ pc = "start"
  /\ "dataset" \in roots
  /\ \E pl \in {"fastdup", "fastdup_v2"}, dr \in BOOLEAN :
       /\ pipeline' = pl
       /\ dry_run' = dr
       /\ images' = SetToSeq(collect_images_from_folder(disk, Exts(pl)))
       /\ pc' = IF pl = "fastdup" /\ "images" \notin roots THEN "returned_no_images_root"
                ELSE IF pl = "fastdup" /\ images' = <<>> THEN "returned_no_images"
                ELSE "backend"
  /\ mode' = "yolo"
  /\ UNCHANGED << phash_threshold, disk, records, visited, keep, remove,
                  duplicate_groups, report, logs, copies, d, splitTxt, disk0, first,
                  roots, components, compute_phash, path_set,
                  reviewerVars >>

\* __main__ of the fastdup scripts: the dataset path does not exist, exit(1).
MainExits ==
  /\ pc = "start"
  /\ "dataset" \notin roots
  /\ \E pl \in {"fastdup", "fastdup_v2"} : pipeline' = pl
  /\ pc' = "exited_1"
  /\ UNCHANGED << mode, dry_run, phash_threshold, disk, images, records, visited, keep,
                  remove, duplicate_groups, report, logs, copies, d, splitTxt, disk0,
                  first, roots, components, compute_phash, path_set,
                  reviewerVars >>

\* fastdup.create or fd.run raises: the error is printed and the run returns.
BackendRaises ==
  /\ pc = "backend"
  /\ pc' = "returned_backend_error"
  /\ UNCHANGED << pipeline, mode, dry_run, phash_threshold, disk, images, records,
                  visited, keep, remove, duplicate_groups, report, logs, copies, d,
                  splitTxt, disk0, first,
                  roots, components, compute_phash, path_set,
                  reviewerVars >>

\* connected_components() is None or empty: the run returns.
NoComponents ==
  /\ pc = "backend"
  /\ pc' = "returned_no_duplicates"
  /\ UNCHANGED << pipeline, mode, dry_run, phash_threshold, disk, images, records,
                  visited, keep, remove, duplicate_groups, report, logs, copies, d,
                  splitTxt, disk0, first,
                  roots, components, compute_phash, path_set,
                  reviewerVars >>

\* The backend answers with components: keep, remove and the groups follow.
ProcessComponents ==
  /\ pc = "backend"
  /\ \E answer \in Answers(disk) \ {<<>>} :
       LET st == AddUnprocessed(pipeline, images,
                   ComponentLoop(pipeline, answer, Range(images),
                                 [keep |-> <<>>, remove |-> <<>>,
                                  duplicate_groups |-> <<>>]))
       IN  /\ components' = answer
           /\ keep' = st.keep
           /\ remove' = st.remove
           /\ duplicate_groups' = st.duplicate_groups
  /\ records' = AsRecords(images)
  /\ pc' = "report"
  /\ UNCHANGED << pipeline, mode, dry_run, phash_threshold, disk, images, visited,
                  report, logs, copies, d, splitTxt, disk0, first, roots,
                  compute_phash, path_set,
                  reviewerVars >>

\* ---------------------------------------------------------------- specification
Next ==
  \/ ConfigError
  \/ RunPhash
  \/ HashAndGroup
  \/ WriteReport
  \/ Previews
  \/ PreviewRaises
  \/ DeleteStep
  \/ DeleteRaises
  \/ Regenerate
  \/ RunFastdup
  \/ MainExits
  \/ BackendRaises
  \/ NoComponents
  \/ ProcessComponents

Spec == Init /\ [][Next]_vars

\* The grouping loop applied a second time to the same records and threshold,
\* the outcome of the first application set aside in `first`.
Rerun ==
  /\ pc = "report"
  /\ pipeline = "phash"
  /\ first = <<>>
  /\ first' = << [keep |-> keep, remove |-> remove,
                  duplicate_groups |-> duplicate_groups] >>
  /\ LET st == GroupLoop(records, 1, phash_threshold, FreshGrouping(visited))
     IN  /\ visited' = st.visited
         /\ keep' = st.keep
         /\ remove' = st.remove
         /\ duplicate_groups' = st.duplicate_groups
  /\ UNCHANGED << pipeline, pc, mode, dry_run, phash_threshold, disk, images, records,
                  report, logs, copies, d, splitTxt, disk0, roots, components, compute_phash, path_set,
                  reviewerVars >>

NextRerun ==
  \/ RunPhash
  \/ HashAndGroup
  \/ Rerun

SpecRerun == Init /\ [][NextRerun]_vars

\* The list s with its elements k and k + 1 exchanged.
SwapAt(s, k) ==
  [ i \in 1..Len(s) |-> IF i = k THEN s[k + 1] ELSE IF i = k + 1 THEN s[k] ELSE s[i] ]

\* The grouping loop applied to the same records in another order (two
\* neighbours exchanged) with the same threshold, the outcome for the first
\* order set aside in `first`.
Reorder ==
  /\ pc = "report"
  /\ pipeline = "phash"
  /\ first = <<>>
  /\ first' = << [keep |-> keep, remove |-> remove,
                  duplicate_groups |-> duplicate_groups] >>
  /\ \E k \in 1..(Len(records) - 1) :
       LET recs == SwapAt(records, k)
           st == GroupLoop(recs, 1, phash_threshold, FreshGrouping(visited))
       IN  /\ records' = recs
           /\ visited' = st.visited
           /\ keep' = st.keep
           /\ remove' = st.remove
           /\ duplicate_groups' = st.duplicate_groups
  /\ UNCHANGED << pipeline, pc, mode, dry_run, phash_threshold, disk, images,
                  report, logs, copies, d, splitTxt, disk0, roots, components,
                  compute_phash, path_set, reviewerVars >>

NextReorder ==
  \/ RunPhash
  \/ HashAndGroup
  \/ Reorder

SpecReorder == Init /\ [][NextReorder]_vars

\* A run up to the end of its logging section; keep, remove, duplicate_groups
\* and the report are assigned nowhere after it.
NextReport ==
  \/ RunPhash
  \/ HashAndGroup
  \/ RunFastdup
  \/ BackendRaises
  \/ NoComponents
  \/ ProcessComponents
  \/ WriteReport

SpecReport == Init /\ [][NextReport]_vars

\* The exit status of the process: 1 after exit(1) and after an exception that
\* nothing catches, 0 when the entry point returns and the script ends.
ExitStatus ==
  IF pc \in {"exited_1", "raised_preview", "raised_delete", "raised_value_error"}
  THEN 1 ELSE 0

\* ---------------------------------------------------------------- reviewer windows
\* The two reviewer scripts.
Reviewers == {"Pyqt_V3", "visualize_pyQt5_V2"}

\* `if self.render_thread and self.render_thread.isRunning():` terminate(), in
\* visualize_pyQt5_V2.py followed by wait(): the states of the threads and of
\* the event queue that may result. terminate() alone returns at once and
\* the thread ends when the system ends it; during terminate()-and-wait()
\* the thread ends, after emitting its result or before.
Terminated(w, ths, evs, rt) ==
  IF rt = 0 \/ ths[rt] # "running"
    THEN { [threads |-> ths, events |-> evs] }
  ELSE IF w = "Pyqt_V3"
    THEN { [threads |-> [ths EXCEPT ![rt] = "terminating"], events |-> evs] }
  ELSE { [threads |-> [ths EXCEPT ![rt] = "dead"], events |-> evs],
         [threads |-> [ths EXCEPT ![rt] = "finished"], events |-> Append(evs, rt)] }

\* The body of load_batch (load_new_batch) for a dataset that holds images: the
\* grid is cleared, the running thread terminated, a thread for the new batch
\* started; Pyqt_V3.py disables the shuffle button.
StartBatch(w) ==
  /\ requested' = requested + 1
  /\ render_thread' = requested + 1
  /\ displayed' = 0
  /\ shuffle_btn' = (w # "Pyqt_V3")
  /\ \E o \in Terminated(w, threads, events, render_thread) :
       /\ threads' = [o.threads EXCEPT ![requested + 1] = "running"]
       /\ events' = o.events

\* ReviewerWindow.__init__: the window is built and asks for its first batch.
OpenWindow ==
  /\ window = "none"
  /\ \E w \in Reviewers : window' = w /\ StartBatch(w)
  /\ UNCHANGED dedupVars

\* load_batch, called by the click of the enabled shuffle button or by the
\* key N, R or Space (keyPressEvent, QShortcut), which no state disables.
load_batch ==
  /\ window # "none"
  /\ requested < MaxBatches
  /\ \E via \in {"button", "key"} : via = "button" => shuffle_btn
  /\ StartBatch(window)
  /\ UNCHANGED << window, dedupVars >>

\* RenderThread.run reaches self.finished.emit(results): the signal is queued
\* for the GUI thread. A thread that terminate() has not ended yet still runs.
ThreadEmits ==
  /\ \E b \in 1..MaxBatches :
       /\ threads[b] \in {"running", "terminating"}
       /\ threads' = [threads EXCEPT ![b] = "finished"]
       /\ events' = Append(events, b)
  /\ UNCHANGED << window, requested, render_thread, displayed, shuffle_btn, dedupVars >>

\* The system ends a thread that terminate() was called on.
ThreadEnds ==
  /\ \E b \in 1..MaxBatches :
       /\ threads[b] = "terminating"
       /\ threads' = [threads EXCEPT ![b] = "dead"]
  /\ UNCHANGED << window, requested, render_thread, events, displayed, shuffle_btn,
                  dedupVars >>

\* on_images_ready (on_rendering_finished), run by the event loop for the
\* oldest queued signal: the images are shown and the button enabled.
on_images_ready ==
  /\ events # <<>>
  /\ displayed' = Head(events)
  /\ events' = Tail(events)
  /\ shuffle_btn' = TRUE
  /\ UNCHANGED << window, requested, render_thread, threads, dedupVars >>

NextReviewer ==
  \/ OpenWindow
  \/ load_batch
  \/ ThreadEmits
  \/ ThreadEnds
  \/ on_images_ready

SpecReviewer == Init /\ [][NextReviewer]_vars

\* ---------------------------------------------------------------- properties
\* The run is over: it returned or an exception left it.
Ended ==
  pc \in { "done", "raised_preview", "raised_delete", "returned_no_images",
           "returned_backend_error", "returned_no_duplicates",
           "returned_no_images_root", "exited_1" }

\* keep, remove and duplicate_groups are those of the finished grouping.
AfterGrouping ==
  pc \in {"report", "preview", "delete", "done", "raised_preview", "raised_delete"}

KeepPaths == { keep[k].path : k \in 1..Len(keep) }

RemovePaths == { remove[k].path : k \in 1..Len(remove) }

\* C1: in dry-run mode no file of the dataset is deleted and no split index is
\* rewritten, whatever the images and the threshold; when a pHash run has
\* ended, dedup_report.json is written and every path it lists as kept or
\* removed is still on disk.
C1_DryRunMutatesNothing ==
  (pipeline # "none" /\ dry_run) =>
    /\ disk = disk0
    /\ \A s \in DOMAIN splitTxt : ~splitTxt[s].rewritten
    /\ (pipeline = "phash" /\ Ended) =>
         /\ report # <<>>
         /\ "dedup_report.json" \in logs
         /\ Range(report[1].kept) \cup Range(report[1].removed) \subseteq disk

\* A dry run of the pHash pipeline on a labelled dataset has ended with images to remove.
C1_Witness ==
  /\ pipeline = "phash" /\ mode = "yolo" /\ dry_run /\ pc = "done"
  /\ Len(remove) >= 1
  /\ \E k \in 1..Len(remove) : LabelPath(remove[k].path) \in disk

\* C2: when a run with dry-run off has completed, no path of the remove list
\* exists any more and every path of the keep list still exists (a deletion
\* that fails leaves the run by its exception: the run does not complete).
C2_RemovedGoneKeptStay ==
  (pc = "done" /\ ~dry_run) =>
    /\ \A k \in 1..Len(remove) : remove[k].path \notin disk
    /\ \A k \in 1..Len(keep) : keep[k].path \in disk

\* A run with dry-run off has completed after removing two images and keeping one.
C2_Witness ==
  /\ pc = "done" /\ ~dry_run
  /\ Len(remove) >= 2 /\ Len(keep) >= 1
  /\ \A k \in 1..Len(remove) : remove[k].path \in disk0

\* C3: the grouping loop of the pHash pipeline leaves keep and remove disjoint,
\* and every image that was hashed successfully is exactly once in keep or remove.
C3_KeepRemovePartitionHashed ==
  (pipeline = "phash" /\ AfterGrouping) =>
    /\ KeepPaths \cap RemovePaths = {}
    /\ KeepPaths \cup RemovePaths = { records[k].path : k \in 1..Len(records) }
    /\ Cardinality(KeepPaths) = Len(keep)
    /\ Cardinality(RemovePaths) = Len(remove)

\* The loop has ended with a group of two and a singleton.
C3_Witness ==
  /\ pipeline = "phash" /\ pc = "report"
  /\ Len(remove) >= 1 /\ Len(keep) >= 2
  /\ Len(records) = Len(images)

\* C4: every duplicate group has at least two members, its first member is the
\* one member in keep and is not in remove, every other member is in remove and
\* not in keep, remove holds nothing but those members, and the report lists
\* each group keeper first.
C4_GroupsHaveOneKeeper ==
  AfterGrouping =>
    /\ \A g \in 1..Len(duplicate_groups) :
         LET group == duplicate_groups[g]
         IN  /\ Len(group) >= 2
             /\ group[1] \in Range(keep)
             /\ group[1] \notin Range(remove)
             /\ \A k \in 2..Len(group) :
                  group[k] \in Range(remove) /\ group[k] \notin Range(keep)
             /\ Cardinality({ k \in 1..Len(group) : group[k].path \in KeepPaths }) = 1
             /\ report # <<>> =>
                  /\ Len(report[1].duplicate_groups[g]) = Len(group)
                  /\ report[1].duplicate_groups[g][1] \in Range(report[1].kept)
                  /\ \A k \in 2..Len(group) :
                       /\ report[1].duplicate_groups[g][k] \in Range(report[1].removed)
                       /\ report[1].duplicate_groups[g][k] \notin Range(report[1].kept)
    /\ Range(remove) =
         UNION { Range(Tail(duplicate_groups[g])) : g \in 1..Len(duplicate_groups) }

\* The report of a run with a group of three is written.
C4_Witness ==
  /\ pc = "preview" /\ report # <<>>
  /\ Len(duplicate_groups) >= 1
  /\ Len(duplicate_groups[1]) = 3

\* C5: an image whose fingerprint could not be computed is in keep and in the
\* report's kept list, not in remove and in no duplicate group.
C5_UnreadableImagesAreKept ==
  (pipeline = "phash" /\ report # <<>>) =>
    \A p \in Range(images) \ Range(MapPath(records)) :
      /\ p \in KeepPaths
      /\ p \in Range(report[1].kept)
      /\ p \notin RemovePaths
      /\ \A g \in 1..Len(duplicate_groups) : p \notin Range(MapPath(duplicate_groups[g]))

\* C6: with labels and dry-run off, once the deletion loop has passed a removed
\* image neither the image nor its label file exists, a label (or image) that
\* is already missing stops nothing: the loop can always take its next entry,
\* and a run that completes has passed every entry.
C6_LabelsFollowImages ==
  (mode = "yolo" /\ ~dry_run /\ pc \in {"delete", "done"}) =>
    /\ \A k \in 1..Len(remove) :
         k < d => /\ remove[k].path \notin disk
                  /\ LabelPath(remove[k].path) \notin disk
    /\ (pc = "delete" /\ d <= Len(remove)) => ENABLED DeleteStep
    /\ pc = "done" => d = Len(remove) + 1

\* A run has completed that removed an image whose label existed and an image
\* that had no label.
C6_Witness ==
  /\ mode = "yolo" /\ ~dry_run /\ pc = "done"
  /\ \E k \in 1..Len(remove) : LabelPath(remove[k].path) \in disk0
  /\ \E k \in 1..Len(remove) : LabelPath(remove[k].path) \notin disk0

\* C7: every run that has ended has written its report.
C7_EveryRunEndsWithReport == Ended => report # <<>>

\* C8: with dry-run off, a run that reached the deletion section ends having
\* attempted every entry of the remove list and regenerated the indexes,
\* whether or not a deletion failed.
C8_DeleteFailureDoesNotAbort ==
  (Ended /\ ~dry_run /\ report # <<>> /\ pc # "raised_preview") =>
    /\ pc = "done"
    /\ d > Len(remove)

C10_IdenticalFingerprintsOneGroup ==
  ( /\ pipeline = "phash" /\ AfterGrouping
    /\ phash_threshold = 0
    /\ Cardinality(Range(MapPath(records))) >= 2
    /\ \A x, y \in 1..Len(records) : records[x].hash = records[y].hash ) =>
    LET k == Cardinality(Range(MapPath(records)))
    IN  /\ Len(duplicate_groups) = 1
        /\ Len(duplicate_groups[1]) = k
        /\ Range(MapPath(duplicate_groups[1])) = Range(MapPath(records))
        /\ Len(keep) = 1
        /\ Len(remove) = k - 1

\* Three images with one fingerprint have been grouped under threshold 0.
C10_Witness ==
  /\ pipeline = "phash" /\ pc = "report" /\ phash_threshold = 0
  /\ Cardinality(Range(MapPath(records))) = 3
  /\ \A x, y \in 1..Len(records) : records[x].hash = records[y].hash
  /\ Len(duplicate_groups) = 1

\* Every two hashed images are farther apart than the threshold.
AllFartherThanThreshold ==
  \A x, y \in 1..Len(records) :
    x # y => Hamming(records[x].hash, records[y].hash) > phash_threshold

\* C11: when the threshold is smaller than the distance of every two
\* fingerprints, the grouping yields no duplicate group and an empty remove
\* list, every hashed image is in keep, in input order, and the report says so.
C11_NoPairWithinThresholdNoGroups ==
  (pipeline = "phash" /\ AfterGrouping /\ AllFartherThanThreshold) =>
    /\ duplicate_groups = <<>>
    /\ remove = <<>>
    /\ keep = records
    /\ report # <<>> =>
         /\ Len(report[1].duplicate_groups) = 0
         /\ Len(report[1].removed) = 0
         /\ report[1].kept = MapPath(records)

\* Two images two bits apart have been grouped under threshold 1.
C11_Witness ==
  /\ pipeline = "phash" /\ pc = "preview"
  /\ phash_threshold >= 1
  /\ Len(records) >= 2
  /\ AllFartherThanThreshold
  /\ Len(keep) = Len(records)

\* The pairs of hashed images, in input order, that are within the threshold.
ClosePairs ==
  { pr \in (1..Len(records)) \X (1..Len(records)) :
      /\ pr[1] < pr[2]
      /\ Hamming(records[pr[1]].hash, records[pr[2]].hash) <= phash_threshold }

\* C12: for n images of which exactly one pair A, B is within the threshold,
\* the grouping yields the one group <<A, B>>, B is the one removed image, the
\* other n - 1 images are kept, and the report shows total_images = n, n - 1
\* kept paths and 1 removed path.
C12_OnePairOneGroup ==
  ( /\ pipeline = "phash" /\ AfterGrouping
    /\ Len(records) = Len(images)
    /\ Cardinality(ClosePairs) = 1 ) =>
    LET pr == CHOOSE p \in ClosePairs : TRUE
        n == Len(images)
    IN  /\ duplicate_groups = << << records[pr[1]], records[pr[2]] >> >>
        /\ remove = << records[pr[2]] >>
        /\ Len(keep) = n - 1
        /\ \A x \in 1..n : x # pr[2] => records[x] \in Range(keep)
        /\ report # <<>> =>
             /\ report[1].total_images = n
             /\ Len(report[1].kept) = n - 1
             /\ Len(report[1].removed) = 1

\* The report of three images with one close pair is written.
C12_Witness ==
  /\ pipeline = "phash" /\ pc = "preview"
  /\ Len(images) = 3 /\ Len(records) = 3
  /\ Cardinality(ClosePairs) = 1
  /\ Len(duplicate_groups) = 1
  /\ report[1].total_images = 3

\* The duplicate groups that hold the image p.
GroupsHolding(p) ==
  { g \in 1..Len(duplicate_groups) :
      \E k \in 1..Len(duplicate_groups[g]) : duplicate_groups[g][k].path = p }

\* The image p has no neighbour: no other hashed image is within the threshold
\* of it (pHash), the backend puts it in no component with another collected
\* image (fastdup).
HasNoNeighbour(p) ==
  IF pipeline = "phash"
    THEN \A x, y \in 1..Len(records) :
           (records[x].path = p /\ records[y].path # p) =>
             Hamming(records[x].hash, records[y].hash) > phash_threshold
    ELSE \A c \in 1..Len(components) :
           p \in Range(components[c]) => Range(components[c]) \cap Range(images) = {p}

\* C13: every image is in at most one duplicate group, no group has fewer
\* than two members, and an image without a neighbour is in no group and is
\* in keep.
C13_AtMostOneGroupSingletonsKept ==
  AfterGrouping =>
    /\ \A p \in Range(images) : Cardinality(GroupsHolding(p)) <= 1
    /\ \A g \in 1..Len(duplicate_groups) : Len(duplicate_groups[g]) >= 2
    /\ \A p \in Range(MapPath(records)) :
         HasNoNeighbour(p) => (GroupsHolding(p) = {} /\ p \in KeepPaths)

\* The image files of a split that exist: the files the running pipeline accepts.
ImagesOfSplit(s) ==
  { f \in disk : f.root = "images" /\ f.split = s /\ f.ext \in Exts(pipeline) }

\* C14: in a YOLO run with dry-run off no split index is rewritten before the
\* deletion loop has passed every entry of the remove list, and when the run
\* has completed the index of every existing split lists each image file
\* present in that split exactly once: no removed image, every surviving
\* image; the index of a split that does not exist is not written.
C14_IndexesRegeneratedAfterDeletion ==
  (mode = "yolo" /\ ~dry_run) =>
    /\ (\E s \in DOMAIN splitTxt : splitTxt[s].rewritten) =>
         /\ pc = "done"
         /\ d > Len(remove)
         /\ RemovePaths \cap disk = {}
    /\ pc = "done" =>
         \A s \in DOMAIN splitTxt :
           IF s \in SplitDirs
             THEN /\ splitTxt[s].rewritten
                  /\ Range(splitTxt[s].lines) = ImagesOfSplit(s)
                  /\ Len(splitTxt[s].lines) = Cardinality(ImagesOfSplit(s))
                  /\ Range(splitTxt[s].lines) \cap RemovePaths = {}
                  /\ { p \in KeepPaths : p.split = s } \subseteq Range(splitTxt[s].lines)
             ELSE ~splitTxt[s].rewritten

\* A YOLO run has completed that removed an image of train and left one there.
C14_Witness ==
  /\ mode = "yolo" /\ ~dry_run /\ pc = "done"
  /\ \E k \in 1..Len(remove) : remove[k].path.split = "train"
  /\ Len(splitTxt["train"].lines) >= 1
  /\ Len(splitTxt["train"].lines) < Cardinality({ f \in ImagePaths : f.split = "train" })

\* A root the run needs does not exist: images/, or labels/ in a YOLO run.
RequiredRootMissing ==
  \/ "images" \notin roots
  \/ mode = "yolo" /\ "labels" \notin roots

\* C15: a run that has ended on a dataset whose images root (or labels root,
\* when required) does not exist has exited with a non-zero status, has
\* written no report or log and has deleted no file.
C15_MissingRootExitsNonZero ==
  (Ended /\ RequiredRootMissing) =>
    /\ ExitStatus # 0
    /\ report = <<>>
    /\ logs = {}
    /\ disk = disk0

\* C16: a run in which the backend failed has ended with a non-zero status,
\* with no keep or remove decision and no file deleted.
C16_BackendFailureIsFatal ==
  pc = "returned_backend_error" =>
    /\ ExitStatus # 0
    /\ keep = <<>> /\ remove = <<>> /\ duplicate_groups = <<>>
    /\ disk = disk0

\* The images of the run whose fingerprint could be computed, in input order.
ReadableImages == SelectSeq(images, LAMBDA p : p \in DOMAIN compute_phash)

\* C17: whichever images fail to be fingerprinted, the run reaches the
\* grouping and can write its report, and records, keep, remove and the
\* duplicate groups are those of a run on the readable images alone.
C17_UnreadableImagesAreSkipped ==
  (pipeline = "phash" /\ AfterGrouping) =>
    LET alone == [k \in 1..Len(ReadableImages) |->
                    [path |-> ReadableImages[k], hash |-> compute_phash[ReadableImages[k]]]]
        st == GroupLoop(alone, 1, phash_threshold,
                        [visited |-> {}, keep |-> <<>>, remove |-> <<>>,
                         duplicate_groups |-> <<>>])
    IN  /\ records = alone
        /\ keep = st.keep
        /\ remove = st.remove
        /\ duplicate_groups = st.duplicate_groups
        /\ pc = "report" => ENABLED WriteReport
        /\ pc = "preview" => report # <<>>

\* The report is written of a run whose first image was unreadable and whose
\* other two images form a group.
C17_Witness ==
  /\ pipeline = "phash" /\ pc = "preview"
  /\ Len(images) = 3
  /\ images[1] \notin DOMAIN compute_phash
  /\ Len(records) = 2
  /\ Len(duplicate_groups) = 1

\* C18: in the fastdup pipelines every collected image is in exactly one of
\* keep and remove, an image the backend puts in no component with another
\* collected image is in keep, and the report's kept and removed lists add up
\* to total_images.
C18_FastdupKeepsUngrouped ==
  (pipeline \in {"fastdup", "fastdup_v2"} /\ AfterGrouping) =>
    /\ \A p \in Range(images) : (p \in KeepPaths) # (p \in RemovePaths)
    /\ \A p \in Range(images) : HasNoNeighbour(p) => p \in KeepPaths
    /\ Len(keep) + Len(remove) = Len(images)
    /\ report # <<>> =>
         Len(report[1].kept) + Len(report[1].removed) = report[1].total_images

\* The place of the image p in the input of the grouping loop.
PlaceOf(p) == CHOOSE k \in 1..Len(records) : records[k].path = p

\* C19: in the pHash pipeline the keeper of every duplicate group is the
\* member that comes first in the input, and every removed image has a kept
\* image within the threshold that comes before it in the input.
C19_KeeperIsFirstSeen ==
  (pipeline = "phash" /\ AfterGrouping) =>
    /\ \A g \in 1..Len(duplicate_groups) :
         LET group == duplicate_groups[g]
         IN  /\ group[1] \in Range(keep)
             /\ \A k \in 2..Len(group) :
                  /\ PlaceOf(group[1].path) < PlaceOf(group[k].path)
                  /\ group[k] \notin Range(keep)
    /\ \A k \in 1..Len(remove) :
         \E j \in 1..Len(keep) :
           /\ PlaceOf(keep[j].path) < PlaceOf(remove[k].path)
           /\ Hamming(keep[j].hash, remove[k].hash) <= phash_threshold

\* The first and the third of three images form a group, the second is apart.
C19_Witness ==
  /\ pipeline = "phash" /\ pc = "report"
  /\ Len(records) = 3
  /\ duplicate_groups = << << records[1], records[3] >> >>
  /\ keep = << records[1], records[2] >>

\* The place of the file p in the component c of the backend's answer.
PlaceIn(c, p) == CHOOSE k \in 1..Len(c) : c[k] = p

\* C20: in dedup_fastdup.py every duplicate group holds the collected images
\* of one component in ascending order of get_keep_priority, its keeper is
\* the first member and no member has a lower score, and a member that ties
\* with the keeper comes after it in the component.
C20_PriorityKeeperStableTies ==
  (pipeline = "fastdup" /\ AfterGrouping) =>
    \A g \in 1..Len(duplicate_groups) :
      LET group == duplicate_groups[g]
          c == CHOOSE c \in Range(components) : group[1].path \in Range(c)
      IN  /\ Range(MapPath(group)) = Range(c) \cap Range(images)
          /\ \A k \in 1..(Len(group) - 1) :
               get_keep_priority(group[k].path) <= get_keep_priority(group[k + 1].path)
          /\ group[1] \in Range(keep)
          /\ \A k \in 2..Len(group) :
               /\ group[k] \in Range(remove)
               /\ get_keep_priority(group[1].path) <= get_keep_priority(group[k].path)
               /\ get_keep_priority(group[1].path) = get_keep_priority(group[k].path)
                    => PlaceIn(c, group[1].path) < PlaceIn(c, group[k].path)

\* A component lists a.png before a.jpg, which have the same score, and
\* a.png is the keeper.
C20_Witness ==
  /\ pipeline = "fastdup" /\ pc = "report"
  /\ \E g \in 1..Len(duplicate_groups) :
       /\ duplicate_groups[g][1].path = File("images", "train", "a", "png")
       /\ duplicate_groups[g][2].path = File("images", "train", "a", "jpg")
       /\ get_keep_priority(duplicate_groups[g][1].path)
            = get_keep_priority(duplicate_groups[g][2].path)

\* C21: when a pHash run has completed, dry or not, the directory of duplicates
\* holds one copied file per removed image: as many copies as the remove list
\* is long, each group directory holding a file for every member but the first.
C21_OneCopyPerRemovedImage ==
  (pipeline = "phash" /\ pc = "done") =>
    /\ Cardinality(copies) = Len(remove)
    /\ \A g \in 1..Len(duplicate_groups) :
         Cardinality({ c \in copies : c[1] = g }) = Len(duplicate_groups[g]) - 1

\* The mode is neither "yolo" nor "raw", or the path the mode requires is not set.
InvalidConfiguration == mode \notin {"yolo", "raw"} \/ ~path_set

\* C22: a pHash run whose mode is neither "yolo" nor "raw", or whose required
\* path is not set, raises ValueError and does nothing else: no image is
\* collected or hashed, no report or log is written, no copy is made, no file
\* is deleted and no split index is rewritten; no other run raises ValueError.
C22_ConfigurationErrorBeforeAnyWork ==
  /\ (pipeline = "phash" /\ InvalidConfiguration) =>
        /\ pc = "raised_value_error"
        /\ ExitStatus = 1
        /\ images = <<>> /\ records = <<>> /\ compute_phash = <<>>
        /\ report = <<>> /\ logs = {} /\ copies = {}
        /\ disk = disk0
        /\ \A s \in DOMAIN splitTxt : ~splitTxt[s].rewritten
  /\ pc = "raised_value_error" => InvalidConfiguration

\* run_deduplication has raised for a known mode whose path is not set, on a
\* dataset that holds images.
C22_Witness ==
  /\ pc = "raised_value_error" /\ mode = "yolo" /\ ~path_set
  /\ collect_images_from_folder(disk, PhashExts) # {}

\* The records that joined the group of the kept record r: none when r is alone.
JoinersOf(r) ==
  UNION { Range(Tail(duplicate_groups[g])) :
            g \in { h \in 1..Len(duplicate_groups) : duplicate_groups[h][1] = r } }

\* The record s was visited when the kept record r was met: it had joined the
\* group of a record that comes before r.
VisitedBefore(r, s) ==
  \E j \in 1..Len(keep) :
    /\ PlaceOf(keep[j].path) < PlaceOf(r.path)
    /\ s \in JoinersOf(keep[j])

\* C23: in the pHash pipeline a record s joins the group of the kept record r
\* exactly when s comes after r in the input, was not visited before r was met
\* and its fingerprint is at distance <= the threshold from r's (distance equal
\* to the threshold included); the members of a group are in input order, r first.
C23_JoinIffLaterUnvisitedWithinThreshold ==
  (pipeline = "phash" /\ AfterGrouping) =>
    /\ \A j \in 1..Len(keep), q \in 1..Len(records) :
         records[q] \in JoinersOf(keep[j]) <=>
           /\ q > PlaceOf(keep[j].path)
           /\ ~VisitedBefore(keep[j], records[q])
           /\ Hamming(keep[j].hash, records[q].hash) <= phash_threshold
    /\ \A g \in 1..Len(duplicate_groups) :
         \A k, l \in 1..Len(duplicate_groups[g]) :
           k < l => PlaceOf(duplicate_groups[g][k].path) < PlaceOf(duplicate_groups[g][l].path)

\* The third record joined the group of the first at distance exactly the
\* threshold; the second, kept alone, is within the threshold of the third,
\* which was visited by then.
C23_Witness ==
  /\ pipeline = "phash" /\ AfterGrouping /\ phash_threshold = 1
  /\ Len(records) = 3 /\ Len(keep) = 2
  /\ Hamming(records[1].hash, records[2].hash) = 2
  /\ Hamming(records[1].hash, records[3].hash) = 1
  /\ Hamming(records[2].hash, records[3].hash) = 1
  /\ duplicate_groups = << << records[1], records[3] >> >>

\* The duplicate groups of an outcome of the grouping loop, as sets of paths.
GroupSets(groups) == { { groups[g][k].path : k \in 1..Len(groups[g]) } : g \in 1..Len(groups) }

\* Being within the threshold is transitive among the records.
ClosenessIsTransitive ==
  \A a, b, c \in Range(records) :
    (Hamming(a.hash, b.hash) <= phash_threshold /\ Hamming(b.hash, c.hash) <= phash_threshold)
      => Hamming(a.hash, c.hash) <= phash_threshold

\* C24: the outcome of the grouping loop depends on the order of its input:
\* some records grouped in two orders give different groups and a different
\* remove set (the state C24_Witness describes); the groups are the same sets
\* of images, and as many images are removed, in both orders whenever being
\* within the threshold is transitive among the records.
C24_OrderDecidesGroupsUnlessTransitive ==
  (pipeline = "phash" /\ first # <<>> /\ ClosenessIsTransitive) =>
    /\ GroupSets(duplicate_groups) = GroupSets(first[1].duplicate_groups)
    /\ Len(remove) = Len(first[1].remove)

\* The same three records grouped in two orders: the groups differ as sets of
\* images, and the sets of removed images differ.
C24_Witness ==
  /\ pipeline = "phash" /\ first # <<>>
  /\ Len(records) = 3
  /\ GroupSets(duplicate_groups) # GroupSets(first[1].duplicate_groups)
  /\ RemovePaths # { first[1].remove[k].path : k \in 1..Len(first[1].remove) }
  /\ Len(remove) # Len(first[1].remove)

\* The structured report and, where the pipeline writes them, the flat
\* listings of kept and removed files are written, the report listing every
\* image of the remove list.
ReportComplete ==
  /\ report # <<>>
  /\ report[1].removed = MapPath(remove)
  /\ report[1].kept = MapPath(keep)
  /\ (pipeline = "phash" => "dedup_report.json" \in logs)
  /\ (pipeline \in {"fastdup", "fastdup_v2"} => "dedup_report_fastdup.json" \in logs)
  /\ (pipeline \in {"phash", "fastdup_v2"} => {"deleted_files.txt", "kept_files.txt"} \subseteq logs)

\* C25: the report and the flat listings are completely written before the
\* first deletion: whenever the deletion section is entered, a file is gone or
\* a split index is rewritten they are written and list every deleted image;
\* a run that a failing preview or copy ends has written them and deleted nothing.
C25_ReportWrittenBeforeFirstDeletion ==
  /\ (pc \in {"delete", "raised_delete"} \/ disk # disk0
        \/ \E s \in DOMAIN splitTxt : splitTxt[s].rewritten) =>
       /\ ReportComplete
       /\ (disk0 \ disk) \cap ImagePaths \subseteq Range(report[1].removed)
  /\ pc = "raised_preview" => (ReportComplete /\ disk = disk0)

\* The first image of the remove list has just been deleted.
C25_Witness ==
  /\ pc = "delete" /\ d = 2 /\ Len(remove) >= 2
  /\ remove[1].path \in disk0 \ disk
  /\ remove[2].path \in disk

\* C26: when a run on a labelled dataset with dry-run off has completed, every
\* kept image whose label file existed when the run began still has its label
\* file, images that share directory and stem included.
C26_KeptImagesKeepTheirLabels ==
  (mode = "yolo" /\ ~dry_run /\ pc = "done") =>
    \A k \in 1..Len(keep) :
      LabelPath(keep[k].path) \in disk0 => LabelPath(keep[k].path) \in disk

\* C27: under the priority policy of dedup_fastdup.py the keeper of a
\* component is never an image whose name holds an augmentation keyword when
\* the component has a member whose name holds none, whatever the lengths of
\* the names and the resolutions.
C27_OriginalBeatsAugmented ==
  (pipeline = "fastdup" /\ AfterGrouping) =>
    \A g \in 1..Len(duplicate_groups) :
      LET group == duplicate_groups[g]
      IN  (\E k \in 1..Len(group) : WordsIn(group[k].path.stem) \cap AUG_KEYWORDS = {})
            => WordsIn(group[1].path.stem) \cap AUG_KEYWORDS = {}

\* The files that existed when the run began and exist no more.
Deleted == disk0 \ disk

\* C28: a run creates no file of the dataset and deletes only images of its
\* remove list and the label files paired with them: every other file, the
\* images it keeps, the images it never listed and the files that are no
\* images included, stays.
C28_OnlyRemoveListAndItsLabelsDeleted ==
  /\ disk \subseteq disk0
  /\ Deleted \subseteq RemovePaths \cup { LabelPath(p) : p \in RemovePaths }
  /\ OtherFile \in disk0 => OtherFile \in disk
  /\ \A p \in (disk0 \cap ImagePaths) \ RemovePaths : p \in disk

\* A run with dry-run off has completed: it deleted an image and its label and
\* left an image it had not been given, whose label is not that of a removed image.
C28_Witness ==
  /\ pc = "done" /\ ~dry_run /\ mode = "yolo"
  /\ \E k \in 1..Len(remove) : {remove[k].path, LabelPath(remove[k].path)} \subseteq Deleted
  /\ \E p \in disk \cap ImagePaths :
       /\ p \notin Range(images)
       /\ LabelPath(p) \in disk

\* C29: in raw mode a run deletes only images of its remove list: no label
\* file is deleted and no split index is written.
C29_RawModeDeletesImagesOnly ==
  (pipeline = "phash" /\ mode = "raw") =>
    /\ Deleted \subseteq RemovePaths
    /\ disk0 \cap LabelPaths \subseteq disk
    /\ \A s \in DOMAIN splitTxt : ~splitTxt[s].rewritten

\* A raw-mode run with dry-run off has completed and removed an image beside
\* which a file of the name of its label lies untouched.
C29_Witness ==
  /\ pipeline = "phash" /\ mode = "raw" /\ ~dry_run /\ pc = "done"
  /\ \E k \in 1..Len(remove) :
       /\ remove[k].path \in Deleted
       /\ LabelPath(remove[k].path) \in disk

\* C30: in the reviewer windows the grid never shows the result of a render
\* thread that a newer request has superseded: it shows nothing yet or the
\* images of the batch requested last.
C30_OnlyLatestBatchDisplayed ==
  window # "none" => displayed \in {0, requested}

====
